---- MODULE Spec2Model ----
(***************************************************************************)
(* Failover dispatcher with lazy health recovery                           *)
(* (apps/weather/services/api_router.py).                                  *)
(*                                                                         *)
(* The router object holds only its registry (self.providers and           *)
(* self.provider_map); the routing assignment, the failure timestamps and  *)
(* the metric counters live in the Django cache.  A cache entry is a       *)
(* record [has, val, exp]: the value and the time at which it expires.     *)
(* Time is in whole seconds.  One route_request call is one step: the      *)
(* clock does not advance inside a call.                                   *)
(***************************************************************************)
EXTENDS Integers, Sequences, FiniteSets, TLC

\* ------------------------------------------------------------------ bounds
MaxCalls == 2
MaxTicks == 2
MaxIncrements == 3

\* ------------------------------------------------------- program constants
ROUTING_CACHE_TTL == 3600
FAILED_CACHE_TTL == 3600
RETRY_INTERVAL_SECONDS == 60
METRICS_TTL == 3600

\* Costs in hundredths of a dollar: 0.0 is 0 and 0.01 is 1.
SCRAPING_COST == 0
EXTERNAL_COST == 1

ProviderNames == {"scraping", "external", "backup"}
Kinds == {"success", "failure"}
UserIds == {1}
TickSteps == {RETRY_INTERVAL_SECONDS - 1, RETRY_INTERVAL_SECONDS, FAILED_CACHE_TTL}
ProbeResults == {"true", "false", "raise"}

\* str(e) of the exception a raising health_check throws.
ProbeExceptionText == "Connection timeout"

\* Python's None, for a provider name and for a timestamp.
None == "None"
NoTimestamp == -1

VARIABLES providers, now, routing, failed, metrics, last, calls, ticks,
          user_routing, health_records, stable, twin, callers, events

vars == <<providers, now, routing, failed, metrics, last, calls, ticks,
          user_routing, health_records, stable, twin, callers, events>>

\* ------------------------------------------------------------ the registry
\* The provider objects: provider_name and cost_per_request.  "scraping" and
\* "external" are the two provider classes; "backup" is a third, free one.
Provider ==
    { [name |-> "scraping", cost |-> SCRAPING_COST],
      [name |-> "external", cost |-> EXTERNAL_COST],
      [name |-> "backup", cost |-> SCRAPING_COST] }

RECURSIVE Orderings(_)
Orderings(S) ==
    IF S = {} THEN {<<>>}
    ELSE UNION {{<<x>> \o s : s \in Orderings(S \ {x})} : x \in S}

\* The provider lists a router is constructed with: one or more providers,
\* in any order, each name once (provider_map is keyed by name).
\* Every list of one or two providers, and one list of all three.
ThreeProviders ==
    << [name |-> "external", cost |-> EXTERNAL_COST],
       [name |-> "scraping", cost |-> SCRAPING_COST],
       [name |-> "backup", cost |-> SCRAPING_COST] >>

Registries ==
    UNION {Orderings(S) : S \in {T \in SUBSET Provider : Cardinality(T) \in {1, 2}}}
        \cup {ThreeProviders}

\* The default registry of APIRouter(providers=None).
DefaultRegistry ==
    << [name |-> "scraping", cost |-> SCRAPING_COST],
       [name |-> "external", cost |-> EXTERNAL_COST] >>

\* Mutant: the names in reverse registry order.
provider_map_keys_reversed(reg) == [i \in 1..Len(reg) |-> reg[Len(reg) + 1 - i].name]

\* list(self.provider_map.keys()): the names in registry order.
provider_map_keys(reg) == [i \in 1..Len(reg) |-> reg[i].name]

InMap(reg, name) == \E i \in 1..Len(reg) : reg[i].name = name

\* ---------------------------------------------------------------- the cache
Absent == [has |-> FALSE, val |-> 0, exp |-> 0]
AbsentName == [has |-> FALSE, val |-> None, exp |-> 0]

CacheEntry(v, t, ttl) == [has |-> TRUE, val |-> v, exp |-> t + ttl]

Live(e, t) == e.has /\ t < e.exp

\* Expiry of an entry whose time has come, as the clock advances.
Expire(e, t, absent) == IF Live(e, t) THEN e ELSE absent

\* An entry d seconds later, seen from a clock that is read relative to the
\* present: its expiry is d nearer, and it is gone once that is reached.
Age(e, d, t, absent) ==
    IF e.has /\ t + d < e.exp THEN [e EXCEPT !.exp = @ - d] ELSE absent

\* ----------------------------------------------------------- failure marks
get_last_failed_timestamp(f, name, t) ==
    IF Live(f[name], t) THEN f[name].val ELSE NoTimestamp

\* Mutant: a provider whose stored health record says "unhealthy" counts as
\* failed.
is_provider_failed_health(f, name, t) ==
    \/ get_last_failed_timestamp(f, name, t) # NoTimestamp
    \/ health_records[name].has /\ health_records[name].status = "unhealthy"

is_provider_failed(f, name, t) ==
    get_last_failed_timestamp(f, name, t) # NoTimestamp

\* Mutant: the mark carries no timestamp of its own.
mark_provider_failed_unstamped(f, name, t) ==
    [f EXCEPT ![name] = CacheEntry(0, t, FAILED_CACHE_TTL)]

mark_provider_failed(f, name, t) ==
    [f EXCEPT ![name] = CacheEntry(t, t, FAILED_CACHE_TTL)]

\* Mutant: the delete is skipped, the mark stays.
clear_failed_timestamp_skipped(f, name) == f

clear_failed_timestamp(f, name) ==
    [f EXCEPT ![name] = Absent]

\* Mutant: a provider without a mark counts as due for a retry.
should_retry_provider_unmarked(f, name, t) ==
    LET last_failed_at == get_last_failed_timestamp(f, name, t)
    IN IF last_failed_at = NoTimestamp THEN TRUE
       ELSE t - last_failed_at >= RETRY_INTERVAL_SECONDS

\* Mutant: the retry interval is taken one second short.
should_retry_provider_early(f, name, t) ==
    LET last_failed_at == get_last_failed_timestamp(f, name, t)
    IN IF last_failed_at = NoTimestamp THEN FALSE
       ELSE t - last_failed_at >= RETRY_INTERVAL_SECONDS - 1

should_retry_provider(f, name, t) ==
    LET last_failed_at == get_last_failed_timestamp(f, name, t)
    IN IF last_failed_at = NoTimestamp THEN FALSE
       ELSE t - last_failed_at >= RETRY_INTERVAL_SECONDS

\* Mutant: an exception of health_check() is not caught.
try_recovery_uncaught(f, name, t, health) ==
    IF health = "true"
    THEN [recovered |-> TRUE, failed |-> clear_failed_timestamp(f, name),
          error |-> ""]
    ELSE IF health = "false"
    THEN [recovered |-> FALSE, failed |-> mark_provider_failed(f, name, t),
          error |-> ""]
    ELSE [recovered |-> FALSE, failed |-> f, error |-> "health check raised"]

\* Returns [recovered, failed, error]: the result, the failure marks
\* afterwards, and the exception that leaves the call ("" when none does).
\* health is what health_check() does: return True, return False or raise.
try_recovery(f, name, t, health) ==
    IF health = "true"
    THEN [recovered |-> TRUE, failed |-> clear_failed_timestamp(f, name),
          error |-> ""]
    ELSE IF health = "false"
    THEN [recovered |-> FALSE, failed |-> mark_provider_failed(f, name, t),
          error |-> ""]
    ELSE [recovered |-> FALSE, failed |-> mark_provider_failed(f, name, t),
          error |-> ""]

\* ---------------------------------------------------------------- selection
InSeq(s, x) == \E i \in 1..Len(s) : s[i] = x

\* Mutant: the loop stops as soon as the free provider is available.
RECURSIVE SelectLoop_shortcut(_, _, _, _, _)
SelectLoop_shortcut(names, i, acc, t, probe) ==
    IF i > Len(names) \/ InSeq(acc.available, "scraping") THEN acc
    ELSE LET name == names[i]
         IN IF should_retry_provider(acc.failed, name, t)
            THEN LET r == try_recovery(acc.failed, name, t, probe[name])
                 IN SelectLoop_shortcut(names, i + 1,
                        [failed |-> r.failed,
                         available |-> IF r.recovered
                                       THEN Append(acc.available, name)
                                       ELSE acc.available,
                         probes |-> Append(acc.probes,
                                       [name |-> name, res |-> probe[name]]),
                         error |-> r.error],
                        t, probe)
            ELSE IF ~is_provider_failed(acc.failed, name, t)
            THEN SelectLoop_shortcut(names, i + 1,
                        [acc EXCEPT !.available = Append(acc.available, name)],
                        t, probe)
            ELSE SelectLoop_shortcut(names, i + 1, acc, t, probe)

\* The loop of _select_provider over provider_map.keys(), from index i on.
\* acc = [failed, available, probes, error]; an exception ends the loop.
RECURSIVE SelectLoop(_, _, _, _, _)
SelectLoop(names, i, acc, t, probe) ==
    IF i > Len(names) THEN acc
    ELSE LET name == names[i]
         IN IF should_retry_provider(acc.failed, name, t)
            THEN LET r == try_recovery(acc.failed, name, t, probe[name])
                     probes == Append(acc.probes, [name |-> name, res |-> probe[name]])
                     acc1 == [failed |-> r.failed,
                              available |-> IF r.recovered
                                            THEN Append(acc.available, name)
                                            ELSE acc.available,
                              probes |-> probes,
                              error |-> r.error]
                 IN IF r.error # "" THEN acc1
                    ELSE SelectLoop(names, i + 1, acc1, t, probe)
            ELSE IF ~is_provider_failed(acc.failed, name, t)
            THEN SelectLoop(names, i + 1,
                        [acc EXCEPT !.available = Append(acc.available, name)],
                        t, probe)
            ELSE SelectLoop(names, i + 1, acc, t, probe)

\* Mutant: the last available provider is taken.
ChooseAvailable_last(available) ==
    IF available = <<>> THEN "scraping"
    ELSE available[Len(available)]

\* The choice among available_providers at the end of _select_provider.
ChooseAvailable(available) ==
    IF available = <<>> THEN "scraping"
    ELSE IF InSeq(available, "scraping") THEN "scraping"
    ELSE available[1]

\* _select_provider: [selected, failed, available, probes, error].
select_provider(reg, f, t, probe) ==
    LET acc == SelectLoop(provider_map_keys(reg), 1,
                          [failed |-> f, available |-> <<>>, probes |-> <<>>,
                           error |-> ""],
                          t, probe)
    IN [selected |-> IF acc.error # "" THEN None
                     ELSE ChooseAvailable(acc.available),
        failed |-> acc.failed,
        available |-> acc.available,
        probes |-> acc.probes,
        error |-> acc.error]

\* ------------------------------------------------------------------ metrics
\* Mutant: every increment takes the ValueError branch.
Increment_reset(m, name, kind, t) ==
    [m EXCEPT ![name][kind] = CacheEntry(1, t, METRICS_TTL)]

\* cache.incr raises ValueError on a missing (or expired) key; the handler
\* then sets 1 with a TTL.  An increment keeps the expiry of the key.
Increment(m, name, kind, t) ==
    IF Live(m[name][kind], t)
    THEN [m EXCEPT ![name][kind].val = @ + 1]
    ELSE [m EXCEPT ![name][kind] = CacheEntry(1, t, METRICS_TTL)]

increment_success_metric(m, name, t) == Increment(m, name, "success", t)

\* Mutant: a failure is counted as a success.
increment_failure_metric_swapped(m, name, t) == Increment(m, name, "success", t)

increment_failure_metric(m, name, t) == Increment(m, name, "failure", t)

\* ------------------------------------------------------------------ routing
\* Mutant: the cached assignment is not looked at.
get_cached_routing_ignored(r, t) == None

get_cached_routing(r, t) == IF Live(r, t) THEN r.val ELSE None

\* Mutant: the assignment written is the hardcoded default name.
set_cached_routing_default(name, t) == CacheEntry("scraping", t, ROUTING_CACHE_TTL)

\* Mutant: the assignment is written with no time to live.
set_cached_routing_expired(name, t) == CacheEntry(name, t, 0)

set_cached_routing(name, t) == CacheEntry(name, t, ROUTING_CACHE_TTL)

\* The store as one value: st = [routing, failed, metrics].
\* A provider call succeeded: cache the assignment, count, clear the mark.
OnSuccess(st, name, t) ==
    [routing |-> set_cached_routing(name, t),
     metrics |-> increment_success_metric(st.metrics, name, t),
     failed |-> clear_failed_timestamp(st.failed, name)]

\* Mutant: the failure is counted but the provider is not marked.
OnFailure_unmarked(st, name, t) ==
    [routing |-> st.routing,
     metrics |-> increment_failure_metric(st.metrics, name, t),
     failed |-> st.failed]

\* Mutant: a failed provider call also deletes the routing assignment.
OnFailure_invalidating(st, name, t) ==
    [routing |-> AbsentName,
     metrics |-> increment_failure_metric(st.metrics, name, t),
     failed |-> mark_provider_failed(st.failed, name, t)]

\* Mutant: a provider is marked only once a failure of it has been counted.
OnFailure_counted(st, name, t) ==
    [routing |-> st.routing,
     metrics |-> increment_failure_metric(st.metrics, name, t),
     failed |-> IF Live(st.metrics[name]["failure"], t)
                THEN mark_provider_failed(st.failed, name, t)
                ELSE st.failed]

\* Mutant: a provider call that raised is still written as the assignment.
OnFailure_assigning(st, name, t) ==
    [routing |-> set_cached_routing(name, t),
     metrics |-> increment_failure_metric(st.metrics, name, t),
     failed |-> mark_provider_failed(st.failed, name, t)]

\* A provider call raised: count, mark failed.
OnFailure(st, name, t) ==
    [routing |-> st.routing,
     metrics |-> increment_failure_metric(st.metrics, name, t),
     failed |-> mark_provider_failed(st.failed, name, t)]

\* Mutant: a call that fails also deletes the routing assignment.
Raised_clearing(st, fetches, msg) ==
    [store |-> [st EXCEPT !.routing = AbsentName], fetches |-> fetches,
     result |-> "raise", error |-> msg, served |-> None]

Raised(st, fetches, msg) ==
    [store |-> st, fetches |-> fetches, result |-> "raise", error |-> msg,
     served |-> None]

Returned(st, fetches, name) ==
    [store |-> st, fetches |-> fetches, result |-> "ok", error |-> "",
     served |-> name]

\* Mutant: a fallback that raised is called a second time before the next.
RECURSIVE FallbackLoop_again(_, _, _, _, _, _)
FallbackLoop_again(fallback_providers, i, st, fetches, t, fetch) ==
    IF i > Len(fallback_providers)
    THEN Raised(st, fetches, "All providers failed")
    ELSE LET fallback_name == fallback_providers[i]
             rec == [name |-> fallback_name, ok |-> fetch[fallback_name]]
         IN IF fetch[fallback_name]
            THEN Returned(OnSuccess(st, fallback_name, t), Append(fetches, rec),
                          fallback_name)
            ELSE FallbackLoop_again(fallback_providers, i + 1,
                                    OnFailure(OnFailure(st, fallback_name, t),
                                              fallback_name, t),
                                    Append(Append(fetches, rec), rec), t, fetch)

\* The fallback loop of _call_with_fallback, from index i on.
RECURSIVE FallbackLoop(_, _, _, _, _, _)
FallbackLoop(fallback_providers, i, st, fetches, t, fetch) ==
    IF i > Len(fallback_providers)
    THEN Raised(st, fetches, "All providers failed")
    ELSE LET fallback_name == fallback_providers[i]
             called == Append(fetches,
                           [name |-> fallback_name, ok |-> fetch[fallback_name]])
         IN IF fetch[fallback_name]
            THEN Returned(OnSuccess(st, fallback_name, t), called, fallback_name)
            ELSE FallbackLoop(fallback_providers, i + 1,
                              OnFailure(st, fallback_name, t), called, t, fetch)

call_with_fallback(reg, primary_provider_name, st, t, fetch) ==
    IF ~InMap(reg, primary_provider_name)
    THEN Raised(st, <<>>, "Provider not found")
    ELSE LET called == <<[name |-> primary_provider_name,
                          ok |-> fetch[primary_provider_name]]>>
         IN IF fetch[primary_provider_name]
            THEN Returned(OnSuccess(st, primary_provider_name, t), called,
                          primary_provider_name)
            ELSE LET st1 == OnFailure(st, primary_provider_name, t)
                     fallback_providers ==
                         SelectSeq(provider_map_keys(reg),
                                   LAMBDA n : n # primary_provider_name)
                 IN IF fallback_providers = <<>>
                    THEN Raised(st1, called, "No fallback provider available")
                    ELSE FallbackLoop(fallback_providers, 1, st1, called, t, fetch)

\* route_request: every field of the call and the store it leaves.
route_request(reg, st, t, fetch, probe) ==
    LET cached_provider_name == get_cached_routing(st.routing, t)
        sel == select_provider(reg, st.failed, t, probe)
        selecting == cached_provider_name = None
        primary_provider_name ==
            IF selecting THEN sel.selected ELSE cached_provider_name
        st1 == IF selecting THEN [st EXCEPT !.failed = sel.failed] ELSE st
        out == IF selecting /\ sel.error # ""
               THEN Raised(st1, <<>>, sel.error)
               ELSE call_with_fallback(reg, primary_provider_name, st1, t, fetch)
    IN [store |-> out.store,
        cached |-> cached_provider_name,
        selecting |-> selecting,
        available |-> IF selecting THEN sel.available ELSE <<>>,
        probes |-> IF selecting THEN sel.probes ELSE <<>>,
        primary |-> primary_provider_name,
        fetches |-> out.fetches,
        result |-> out.result,
        error |-> out.error,
        served |-> out.served]

\* ------------------------------------------------------- the health checker
\* The value under "api:health:<name>": status, last_check and last_error
\* (<<>> is None; an exception's message follows its prefix).
NoRecord == [has |-> FALSE, status |-> "", last_check |-> 0, last_error |-> <<>>]

\* _update_health_status: stored with timeout=None, so it never expires.
update_health_status(h, name, status, t, error) ==
    [h EXCEPT ![name] = [has |-> TRUE, status |-> status, last_check |-> t,
                         last_error |-> error]]

\* Mutant: a health_check that raises leaves no record.
check_provider_unrecorded(h, name, t, res) ==
    IF res = "true"
    THEN [health |-> update_health_status(h, name, "healthy", t, <<>>),
          is_healthy |-> TRUE]
    ELSE IF res = "false"
    THEN [health |-> update_health_status(h, name, "unhealthy", t,
                                          <<"Health check returned False">>),
          is_healthy |-> FALSE]
    ELSE [health |-> h, is_healthy |-> FALSE]

\* _check_provider: [health, is_healthy].
check_provider(h, name, t, res) ==
    IF res = "true"
    THEN [health |-> update_health_status(h, name, "healthy", t, <<>>),
          is_healthy |-> TRUE]
    ELSE IF res = "false"
    THEN [health |-> update_health_status(h, name, "unhealthy", t,
                                          <<"Health check returned False">>),
          is_healthy |-> FALSE]
    ELSE [health |-> update_health_status(h, name, "unhealthy", t,
                        <<"Health check exception", ProbeExceptionText>>),
          is_healthy |-> FALSE]

\* _get_previous_health_status: the status stored now, "healthy" if none.
get_previous_health_status(h, name) ==
    IF h[name].has THEN h[name].status ELSE "healthy"

\* What cache.delete_pattern does when called: delete the matching keys,
\* raise AttributeError (the backend has no such method) or raise another
\* exception.
DeleteOutcomes == {"deleted", "AttributeError", "Exception"}

\* Mutant: the keys are gone whatever delete_pattern did.
clear_routing_cache_pattern_forced(st, outcome) ==
    [health |-> st.health,
     routing |-> AbsentName,
     user_routing |-> [u \in UserIds |-> AbsentName],
     cleared |-> st.cleared + 1]

\* _clear_routing_cache_pattern("routing:*") on st = [health, routing,
\* user_routing, cleared]: every key under "routing:" is deleted when
\* delete_pattern works; either exception is caught and logged.
clear_routing_cache_pattern(st, outcome) ==
    [health |-> st.health,
     routing |-> IF outcome = "deleted" THEN AbsentName ELSE st.routing,
     user_routing |-> IF outcome = "deleted"
                      THEN [u \in UserIds |-> AbsentName]
                      ELSE st.user_routing,
     cleared |-> st.cleared + 1]

\* Mutant: every healthy provider counts as recovered.
check_and_handle_recovery_always(st, name, outcome) ==
    clear_routing_cache_pattern(st, outcome)

\* _check_and_handle_recovery, called after _check_provider has stored the
\* new record.
check_and_handle_recovery(st, name, outcome) ==
    IF get_previous_health_status(st.health, name) = "unhealthy"
    THEN clear_routing_cache_pattern(st, outcome)
    ELSE st

\* The loop of check_all_providers over self.providers.
\* acc = [st, results, probes]; results is the dict keyed by provider name.
RECURSIVE CheckLoop(_, _, _, _, _, _)
CheckLoop(names, i, acc, t, probe, outcome) ==
    IF i > Len(names) THEN acc
    ELSE LET name == names[i]
             chk == check_provider(acc.st.health, name, t, probe[name])
             st1 == [acc.st EXCEPT !.health = chk.health]
             st2 == IF chk.is_healthy
                    THEN check_and_handle_recovery(st1, name, outcome)
                    ELSE st1
         IN CheckLoop(names, i + 1,
                      [st |-> st2,
                       results |-> [n \in DOMAIN acc.results \cup {name} |->
                                       IF n = name THEN chk.is_healthy
                                       ELSE acc.results[n]],
                       probes |-> Append(acc.probes,
                                         [name |-> name, res |-> probe[name]])],
                      t, probe, outcome)

\* check_all_providers: [st, results, probes].
check_all_providers(reg, st, t, probe, outcome) ==
    CheckLoop(provider_map_keys(reg), 1,
              [st |-> st, results |-> <<>>, probes |-> <<>>],
              t, probe, outcome)

\* ------------------------------------------------------------ state machine
\* The callers that can be inside route_request at the same time, and a
\* caller that is not.
Callers == {"c1", "c2"}

Idle ==
    [pc |-> "idle", i |-> 0, available |-> <<>>, primary |-> None,
     target |-> None, fb |-> 0, ok |-> FALSE]

\* What has been observed of the callers so far: per counter the increments
\* performed and the highest value one of them produced; the name last
\* written as assignment; the providers whose fetch succeeded; per provider
\* the probes made, whether a probe was made on a mark younger than the
\* retry interval, and whether the last fetch failed with no successful
\* probe or fetch since.
NoEvents ==
    [increments |-> [n \in ProviderNames |-> [k \in Kinds |-> 0]],
     highest |-> [n \in ProviderNames |-> [k \in Kinds |-> 0]],
     written |-> None,
     served |-> {},
     probed |-> [n \in ProviderNames |-> 0],
     early |-> FALSE,
     failing |-> [n \in ProviderNames |-> FALSE]]

\* No second store run alongside.
NoTwin ==
    [routing |-> AbsentName,
     failed |-> [n \in ProviderNames |-> Absent],
     metrics |-> [n \in ProviderNames |-> [k \in Kinds |-> Absent]],
     fetches |-> <<>>, probes |-> <<>>, result |-> "none"]

\* No metric key named in a call record.
NoMetric == [name |-> None, kind |-> ""]

NoCall ==
    [op |-> "none", user_id |-> 0, at |-> 0,
     pre |-> [routing |-> AbsentName,
              failed |-> [n \in ProviderNames |-> Absent],
              metrics |-> [n \in ProviderNames |-> [k \in Kinds |-> Absent]]],
     cached |-> None, selecting |-> FALSE, available |-> <<>>, probes |-> <<>>,
     primary |-> None, fetches |-> <<>>, result |-> "none", error |-> "",
     served |-> None,
     pre_health |-> [n \in ProviderNames |-> NoRecord],
     results |-> <<>>, cleared |-> 0,
     metric |-> NoMetric,
     pre_user_routing |-> [u \in UserIds |-> AbsentName],
     delete_pattern |-> ""]

Init ==
    /\ providers \in Registries
    /\ now = 0
    /\ routing = AbsentName
    /\ failed = [n \in ProviderNames |-> Absent]
    /\ metrics = [n \in ProviderNames |-> [k \in Kinds |-> Absent]]
    /\ last = NoCall
    /\ calls = 0
    /\ ticks = 0
    /\ user_routing = [u \in UserIds |-> AbsentName]
    /\ health_records = [n \in ProviderNames |-> NoRecord]
    /\ stable = {}
    /\ twin = NoTwin
    /\ callers = [c \in Callers |-> Idle]
    /\ events = NoEvents

\* One call of APIRouter.route_request.  fetch and probe are what each
\* provider's get_weather_forecast and health_check would do if called.
\* What is kept of one call of route_request: its arguments, the store it
\* found and every field of its outcome.
RouteRecord(user_id, pre, r) ==
    [op |-> "route", user_id |-> user_id, at |-> now,
     pre |-> pre,
     cached |-> r.cached, selecting |-> r.selecting,
     available |-> r.available, probes |-> r.probes,
     primary |-> r.primary, fetches |-> r.fetches,
     result |-> r.result, error |-> r.error,
     served |-> r.served,
     pre_health |-> health_records, results |-> <<>>, cleared |-> 0,
     metric |-> NoMetric,
     pre_user_routing |-> user_routing,
     delete_pattern |-> ""]

RouteRequest(user_id, fetch, probe) ==
    /\ calls < MaxCalls
    /\ LET pre == [routing |-> routing, failed |-> failed, metrics |-> metrics]
           r == route_request(providers, pre, now, fetch, probe)
       IN /\ routing' = r.store.routing
          /\ failed' = r.store.failed
          /\ metrics' = r.store.metrics
          /\ last' = RouteRecord(user_id, pre, r)
    /\ calls' = calls + 1
    /\ UNCHANGED <<providers, now, ticks, user_routing, health_records, stable, twin,
                   callers, events>>

\* The clock advances; entries whose TTL has run out leave the cache.
Tick(d) ==
    /\ ticks < MaxTicks
    /\ now' = now + d
    /\ routing' = Expire(routing, now', AbsentName)
    /\ failed' = [n \in ProviderNames |-> Expire(failed[n], now', Absent)]
    /\ metrics' = [n \in ProviderNames |->
                      [k \in Kinds |-> Expire(metrics[n][k], now', Absent)]]
    /\ user_routing' = [u \in UserIds |-> Expire(user_routing[u], now', AbsentName)]
    /\ twin' = [twin EXCEPT
                   !.routing = Expire(@, now', AbsentName),
                   !.failed = [n \in ProviderNames |-> Expire(@[n], now', Absent)],
                   !.metrics = [n \in ProviderNames |->
                                   [k \in Kinds |-> Expire(@[n][k], now', Absent)]]]
    /\ ticks' = ticks + 1
    /\ UNCHANGED <<providers, last, calls, health_records, stable, callers, events>>

\* One direct call of APIRouter._select_provider.
SelectProvider(probe) ==
    /\ calls < MaxCalls
    /\ LET pre == [routing |-> routing, failed |-> failed, metrics |-> metrics]
           r == select_provider(providers, failed, now, probe)
       IN /\ failed' = r.failed
          /\ last' = [op |-> "select", user_id |-> 0, at |-> now,
                      pre |-> pre,
                      cached |-> None, selecting |-> TRUE,
                      available |-> r.available, probes |-> r.probes,
                      primary |-> r.selected, fetches |-> <<>>,
                      result |-> IF r.error = "" THEN "ok" ELSE "raise",
                      error |-> r.error,
                      served |-> None,
                      pre_health |-> health_records, results |-> <<>>, cleared |-> 0,
                      metric |-> NoMetric,
                      pre_user_routing |-> user_routing,
                      delete_pattern |-> ""]
    /\ calls' = calls + 1
    /\ UNCHANGED <<providers, now, routing, metrics, ticks, user_routing,
                   health_records, stable, twin, callers, events>>

\* One run of HealthChecker.check_all_providers over the same providers.
\* probe is what each health_check would do, outcome what delete_pattern
\* would.
CheckAllProviders(probe, outcome) ==
    /\ calls < MaxCalls
    /\ LET pre == [routing |-> routing, failed |-> failed, metrics |-> metrics]
           r == check_all_providers(providers,
                                    [health |-> health_records, routing |-> routing,
                                     user_routing |-> user_routing,
                                     cleared |-> 0],
                                    now, probe, outcome)
       IN /\ health_records' = r.st.health
          /\ routing' = r.st.routing
          /\ user_routing' = r.st.user_routing
          /\ last' = [op |-> "sweep", user_id |-> 0, at |-> now,
                      pre |-> pre,
                      cached |-> None, selecting |-> FALSE,
                      available |-> <<>>, probes |-> r.probes,
                      primary |-> None, fetches |-> <<>>,
                      result |-> "ok", error |-> "",
                      served |-> None,
                      pre_health |-> health_records, results |-> r.results,
                      cleared |-> r.st.cleared,
                      metric |-> NoMetric,
                      pre_user_routing |-> user_routing,
                      delete_pattern |-> IF r.st.cleared > 0 THEN outcome
                                         ELSE ""]
    /\ calls' = calls + 1
    /\ UNCHANGED <<providers, now, failed, metrics, ticks, stable, twin,
                   callers, events>>

\* The providers a call at time t can reach: those of the registry for a
\* fetch, and for a probe those whose retry interval has elapsed.
Registered(reg) == {reg[i].name : i \in 1..Len(reg)}

Due(reg, f, t) == {n \in Registered(reg) : should_retry_provider(f, n, t)}

\* route_request runs selection only when no assignment is cached.
DueInRoute ==
    IF get_cached_routing(routing, now) = None
    THEN Due(providers, failed, now) ELSE {}

Next ==
    \/ \E u \in UserIds, fetch \in [Registered(providers) -> BOOLEAN],
          probe \in [DueInRoute -> ProbeResults] :
             RouteRequest(u, fetch, probe)
    \/ \E d \in TickSteps : Tick(d)

Spec == Init /\ [][Next]_vars

\* ---------------------------------------------------- selection on its own
\* The cache as calls of this and of other router instances can have left it
\* by the time RETRY_INTERVAL_SECONDS: each registered provider unmarked,
\* marked at time 0 (retry interval elapsed) or marked at time 1 (cooldown).
MarkChoices ==
    {Absent, CacheEntry(0, 0, FAILED_CACHE_TTL), CacheEntry(1, 1, FAILED_CACHE_TTL)}

InitSelect ==
    /\ providers \in Registries
    /\ now = RETRY_INTERVAL_SECONDS
    /\ routing = AbsentName
    /\ failed \in {f \in [ProviderNames -> MarkChoices] :
                      \A n \in ProviderNames \ Registered(providers) : f[n] = Absent}
    /\ metrics = [n \in ProviderNames |-> [k \in Kinds |-> Absent]]
    /\ last = NoCall
    /\ calls = 0
    /\ ticks = 0
    /\ user_routing = [u \in UserIds |-> AbsentName]
    /\ health_records = [n \in ProviderNames |-> NoRecord]
    /\ stable = {}
    /\ twin = NoTwin
    /\ callers = [c \in Callers |-> Idle]
    /\ events = NoEvents

NextSelect ==
    \/ \E probe \in [Due(providers, failed, now) -> ProbeResults] :
             SelectProvider(probe)
    \/ \E d \in TickSteps : Tick(d)

SpecSelect == InitSelect /\ [][NextSelect]_vars

\* -------------------------------------------------------- a shared cache
\* The cache is shared: the assignment under "routing:current" can have been
\* written by a router constructed with other providers, and the key
\* "routing:<user_id>" by a caller that writes it directly.  The cache
\* backend is one with delete_pattern or one without.
RoutingChoices ==
    {AbsentName} \cup {CacheEntry(n, 0, ROUTING_CACHE_TTL) : n \in ProviderNames}

UserRoutingChoices == {AbsentName, CacheEntry("external", 0, ROUTING_CACHE_TTL)}

InitShared ==
    /\ providers \in Registries
    /\ now = 0
    /\ routing \in RoutingChoices
    /\ failed = [n \in ProviderNames |-> Absent]
    /\ metrics = [n \in ProviderNames |-> [k \in Kinds |-> Absent]]
    /\ last = NoCall
    /\ calls = 0
    /\ ticks = 0
    /\ user_routing \in [UserIds -> UserRoutingChoices]
    /\ health_records = [n \in ProviderNames |-> NoRecord]
    /\ stable = {}
    /\ twin = NoTwin
    /\ callers = [c \in Callers |-> Idle]
    /\ events = NoEvents

NextShared ==
    \/ \E u \in UserIds, fetch \in [Registered(providers) -> BOOLEAN],
          probe \in [DueInRoute -> ProbeResults] :
             RouteRequest(u, fetch, probe)
    \/ \E probe \in [Registered(providers) -> ProbeResults],
          outcome \in {"deleted", "AttributeError"} :
             CheckAllProviders(probe, outcome)

SpecShared == InitShared /\ [][NextShared]_vars

\* One direct call of HealthChecker._clear_routing_cache_pattern("routing:*").
ClearRoutingCachePattern(outcome) ==
    /\ calls < MaxCalls
    /\ LET r == clear_routing_cache_pattern(
                    [health |-> health_records, routing |-> routing,
                     user_routing |-> user_routing, cleared |-> 0],
                    outcome)
       IN /\ routing' = r.routing
          /\ user_routing' = r.user_routing
          /\ last' = [NoCall EXCEPT !.op = "clear", !.at = now,
                                    !.pre = [routing |-> routing,
                                             failed |-> failed,
                                             metrics |-> metrics],
                                    !.pre_health = health_records,
                                    !.pre_user_routing = user_routing,
                                    !.result = "ok",
                                    !.cleared = r.cleared,
                                    !.delete_pattern = outcome]
    /\ calls' = calls + 1
    /\ UNCHANGED <<providers, now, failed, metrics, ticks, health_records, stable, twin,
                   callers, events>>

NextClear ==
    \/ \E outcome \in DeleteOutcomes : ClearRoutingCachePattern(outcome)
    \/ \E probe \in [Registered(providers) -> ProbeResults],
          outcome \in DeleteOutcomes :
             CheckAllProviders(probe, outcome)

SpecClear == InitShared /\ [][NextClear]_vars

\* ---------------------------------------------------- metrics on their own
\* Direct calls of the two increment methods on a router, for the names of
\* its providers.
IncrementRecord(name, kind) ==
    [NoCall EXCEPT !.op = "increment", !.at = now,
                   !.pre = [routing |-> routing, failed |-> failed,
                            metrics |-> metrics],
                   !.pre_health = health_records,
                   !.pre_user_routing = user_routing,
                   !.metric = [name |-> name, kind |-> kind]]

IncrementSuccessMetric(name) ==
    /\ calls < MaxIncrements
    /\ metrics' = increment_success_metric(metrics, name, now)
    /\ last' = IncrementRecord(name, "success")
    /\ calls' = calls + 1
    /\ UNCHANGED <<providers, now, routing, failed, ticks, user_routing,
                   health_records, stable, twin, callers, events>>

IncrementFailureMetric(name) ==
    /\ calls < MaxIncrements
    /\ metrics' = increment_failure_metric(metrics, name, now)
    /\ last' = IncrementRecord(name, "failure")
    /\ calls' = calls + 1
    /\ UNCHANGED <<providers, now, routing, failed, ticks, user_routing,
                   health_records, stable, twin, callers, events>>

NextMetrics ==
    \/ \E name \in Registered(providers) : IncrementSuccessMetric(name)
    \/ \E name \in Registered(providers) : IncrementFailureMetric(name)
    \/ \E d \in TickSteps : Tick(d)

SpecMetrics == Init /\ [][NextMetrics]_vars

\* ------------------------------------------------------ calls without end
\* Callers keep calling while time passes.  The code reads the clock only
\* to take differences with stored timestamps and expiries, so the clock is
\* kept where it is and what is stored moves back instead; a step of half
\* the mark's TTL is beyond the retry interval, a step of the whole TTL
\* expires everything.
LiveSteps == {FAILED_CACHE_TTL \div 2, FAILED_CACHE_TTL}

\* The routers built from the two provider classes.
LiveRegistries ==
    {reg \in Registries : Registered(reg) \subseteq Registered(DefaultRegistry)}

InitLive ==
    /\ providers \in LiveRegistries
    /\ now = FAILED_CACHE_TTL
    /\ routing = AbsentName
    /\ failed = [n \in ProviderNames |-> Absent]
    /\ metrics = [n \in ProviderNames |-> [k \in Kinds |-> Absent]]
    /\ last = NoCall
    /\ calls = 0
    /\ ticks = 0
    /\ user_routing = [u \in UserIds |-> AbsentName]
    /\ health_records = [n \in ProviderNames |-> NoRecord]
    /\ stable = {}
    /\ twin = NoTwin
    /\ callers = [c \in Callers |-> Idle]
    /\ events = NoEvents

\* Mutant: a failure mark does not age and never expires.
AgeMark_frozen(e, d, t) == e

\* A failure mark d seconds later: its timestamp is d further back.
AgeMark(e, d, t) ==
    LET a == Age(e, d, t, Absent)
    IN IF a.has THEN [a EXCEPT !.val = @ - d] ELSE a

\* d seconds pass; the calls made so far are history.
Advance(d) ==
    /\ routing' = Age(routing, d, now, AbsentName)
    /\ failed' = [n \in ProviderNames |-> AgeMark(failed[n], d, now)]
    /\ metrics' = [n \in ProviderNames |->
                      [k \in Kinds |-> Age(metrics[n][k], d, now, Absent)]]
    /\ user_routing' = [u \in UserIds |-> Age(user_routing[u], d, now, AbsentName)]
    /\ last' = NoCall
    /\ calls' = 0
    /\ UNCHANGED <<providers, now, ticks, health_records, stable, twin,
                   callers, events>>

\* From now on the provider's health_check returns True and its
\* get_weather_forecast returns a forecast.
Recover(name) ==
    /\ name \notin stable
    /\ stable' = stable \cup {name}
    /\ UNCHANGED <<providers, now, routing, failed, metrics, last, calls, ticks,
                   user_routing, health_records, twin, callers, events>>

NextLive ==
    \/ \E u \in UserIds,
          fetch \in {f \in [Registered(providers) -> BOOLEAN] :
                        \A n \in stable : f[n]},
          probe \in {p \in [DueInRoute -> ProbeResults] :
                        \A n \in stable \cap DueInRoute : p[n] = "true"} :
             RouteRequest(u, fetch, probe)
    \/ \E d \in LiveSteps : Advance(d)
    \/ \E name \in Registered(providers) : Recover(name)

\* Time passes whatever the callers do; callers call as often as they like.
SpecLive ==
    /\ InitLive
    /\ [][NextLive]_vars
    /\ WF_vars(\E d \in LiveSteps : Advance(d))

\* ------------------------------------------------------- two stores at once
\* The same requests with the same provider outcomes run against two stores
\* that differ in their metric counters only: the store of the model and a
\* second one in which counters are already present.
TwinMetricsChoices ==
    { [n \in ProviderNames |-> [k \in Kinds |-> CacheEntry(3, 0, METRICS_TTL)]],
      [n \in ProviderNames |->
          [k \in Kinds |-> IF n = "scraping" /\ k = "failure"
                           THEN CacheEntry(1, 0, METRICS_TTL) ELSE Absent]],
      [n \in ProviderNames |->
          [k \in Kinds |-> IF n = "external" /\ k = "success"
                           THEN CacheEntry(2, 0, METRICS_TTL) ELSE Absent]] }

InitTwin ==
    /\ providers \in LiveRegistries
    /\ now = 0
    /\ routing = AbsentName
    /\ failed = [n \in ProviderNames |-> Absent]
    /\ metrics = [n \in ProviderNames |-> [k \in Kinds |-> Absent]]
    /\ last = NoCall
    /\ calls = 0
    /\ ticks = 0
    /\ user_routing = [u \in UserIds |-> AbsentName]
    /\ health_records = [n \in ProviderNames |-> NoRecord]
    /\ stable = {}
    /\ twin \in {[NoTwin EXCEPT !.metrics = m] : m \in TwinMetricsChoices}
    /\ callers = [c \in Callers |-> Idle]
    /\ events = NoEvents

\* What is kept of the call against the second store.
TwinOf(r) ==
    [routing |-> r.store.routing, failed |-> r.store.failed,
     metrics |-> r.store.metrics, fetches |-> r.fetches,
     probes |-> r.probes, result |-> r.result]

\* One call of route_request against each store, with the same outcomes of
\* the providers.
RouteBoth(user_id, fetch, probe) ==
    /\ calls < MaxCalls
    /\ LET pre == [routing |-> routing, failed |-> failed, metrics |-> metrics]
           r == route_request(providers, pre, now, fetch, probe)
           r2 == route_request(providers,
                               [routing |-> twin.routing, failed |-> twin.failed,
                                metrics |-> twin.metrics],
                               now, fetch, probe)
       IN /\ routing' = r.store.routing
          /\ failed' = r.store.failed
          /\ metrics' = r.store.metrics
          /\ last' = RouteRecord(user_id, pre, r)
          /\ twin' = TwinOf(r2)
    /\ calls' = calls + 1
    /\ UNCHANGED <<providers, now, ticks, user_routing, health_records, stable,
                   callers, events>>

NextTwin ==
    \/ \E u \in UserIds, fetch \in [Registered(providers) -> BOOLEAN],
          probe \in [DueInRoute -> ProbeResults] :
             RouteBoth(u, fetch, probe)
    \/ \E d \in TickSteps : Tick(d)

SpecTwin == InitTwin /\ [][NextTwin]_vars

\* ------------------------------------------------------- concurrent callers
\* Each caller runs one route_request; a step is one cache operation or one
\* provider call, and the steps of the callers interleave.  The clock stands
\* at RETRY_INTERVAL_SECONDS and the marks are as in selection on its own.
InitConc ==
    /\ providers \in LiveRegistries
    /\ now = RETRY_INTERVAL_SECONDS
    /\ routing = AbsentName
    /\ failed \in {f \in [ProviderNames -> MarkChoices] :
                      \A n \in ProviderNames \ Registered(providers) : f[n] = Absent}
    /\ metrics = [n \in ProviderNames |-> [k \in Kinds |-> Absent]]
    /\ last = NoCall
    /\ calls = 0
    /\ ticks = 0
    /\ user_routing = [u \in UserIds |-> AbsentName]
    /\ health_records = [n \in ProviderNames |-> NoRecord]
    /\ stable = {}
    /\ twin = NoTwin
    /\ callers = [c \in Callers |-> Idle]
    /\ events = NoEvents

\* What the steps of a caller leave alone besides the store.
ConcFrame == <<providers, now, last, calls, ticks, user_routing, health_records,
               stable, twin>>

\* The caller goes on to _call_with_fallback with the given primary.
CallWithFallback(s, primary_provider_name) ==
    IF InMap(providers, primary_provider_name)
    THEN [s EXCEPT !.pc = "fetch", !.primary = primary_provider_name,
                   !.target = primary_provider_name, !.fb = 0]
    ELSE [s EXCEPT !.pc = "done", !.primary = primary_provider_name,
                   !.ok = FALSE]

\* The selection loop moves to the next provider, or ends with the choice.
NextInLoop(s, available) ==
    IF s.i + 1 > Len(providers)
    THEN CallWithFallback([s EXCEPT !.available = available],
                          ChooseAvailable(available))
    ELSE [s EXCEPT !.pc = "retry", !.i = s.i + 1, !.available = available]

\* The names left to try after the primary.
Fallbacks(s) ==
    SelectSeq(provider_map_keys(providers), LAMBDA n : n # s.primary)

\* route_request reads the assignment.
Begin(c) ==
    /\ callers[c].pc = "idle"
    /\ LET cached_provider_name == get_cached_routing(routing, now)
       IN callers' = [callers EXCEPT ![c] =
              IF cached_provider_name = None
              THEN [@ EXCEPT !.pc = "retry", !.i = 1]
              ELSE CallWithFallback(@, cached_provider_name)]
    /\ UNCHANGED <<routing, failed, metrics, events>>
    /\ UNCHANGED ConcFrame

\* _should_retry_provider reads the mark of the provider at hand.
CheckRetry(c) ==
    /\ callers[c].pc = "retry"
    /\ LET name == provider_map_keys(providers)[callers[c].i]
           due == should_retry_provider(failed, name, now)
           stamp == get_last_failed_timestamp(failed, name, now)
       IN /\ callers' = [callers EXCEPT ![c].pc =
                            IF due THEN "probe" ELSE "failed"]
          /\ events' = [events EXCEPT !.early =
                            @ \/ (due /\ (stamp = NoTimestamp
                                   \/ now - stamp < RETRY_INTERVAL_SECONDS))]
    /\ UNCHANGED <<routing, failed, metrics>>
    /\ UNCHANGED ConcFrame

\* _is_provider_failed reads the mark again.
CheckFailed(c) ==
    /\ callers[c].pc = "failed"
    /\ LET s == callers[c]
           name == provider_map_keys(providers)[s.i]
       IN callers' = [callers EXCEPT ![c] =
              IF is_provider_failed(failed, name, now)
              THEN NextInLoop(s, s.available)
              ELSE NextInLoop(s, Append(s.available, name))]
    /\ UNCHANGED <<routing, failed, metrics, events>>
    /\ UNCHANGED ConcFrame

\* _try_recovery calls health_check.
Probe(c, res) ==
    /\ callers[c].pc = "probe"
    /\ LET name == provider_map_keys(providers)[callers[c].i]
       IN /\ callers' = [callers EXCEPT ![c].pc =
                            IF res = "true" THEN "recovered" ELSE "unrecovered"]
          /\ events' = [events EXCEPT
                           !.probed[name] = @ + 1,
                           !.failing[name] = IF res = "true" THEN FALSE ELSE @]
    /\ UNCHANGED <<routing, failed, metrics>>
    /\ UNCHANGED ConcFrame

\* _try_recovery deletes the mark of the provider that proved healthy.
Recovered(c) ==
    /\ callers[c].pc = "recovered"
    /\ LET s == callers[c]
           name == provider_map_keys(providers)[s.i]
       IN /\ failed' = clear_failed_timestamp(failed, name)
          /\ callers' = [callers EXCEPT ![c] =
                            NextInLoop(s, Append(s.available, name))]
    /\ UNCHANGED <<routing, metrics, events>>
    /\ UNCHANGED ConcFrame

\* _try_recovery stamps the mark of the provider that did not.
Unrecovered(c) ==
    /\ callers[c].pc = "unrecovered"
    /\ LET s == callers[c]
           name == provider_map_keys(providers)[s.i]
       IN /\ failed' = mark_provider_failed(failed, name, now)
          /\ callers' = [callers EXCEPT ![c] = NextInLoop(s, s.available)]
    /\ UNCHANGED <<routing, metrics, events>>
    /\ UNCHANGED ConcFrame

\* get_weather_forecast of the provider at hand returns or raises.
Fetch(c, ok) ==
    /\ callers[c].pc = "fetch"
    /\ LET name == callers[c].target
       IN /\ callers' = [callers EXCEPT ![c].pc =
                            IF ok THEN "set_routing" ELSE "incr_failure"]
          /\ events' = [events EXCEPT
                           !.served = IF ok THEN @ \cup {name} ELSE @,
                           !.failing[name] = ~ok]
    /\ UNCHANGED <<routing, failed, metrics>>
    /\ UNCHANGED ConcFrame

\* _set_cached_routing after a successful fetch.
SetRouting(c) ==
    /\ callers[c].pc = "set_routing"
    /\ routing' = set_cached_routing(callers[c].target, now)
    /\ callers' = [callers EXCEPT ![c].pc = "incr_success"]
    /\ events' = [events EXCEPT !.written = callers[c].target]
    /\ UNCHANGED <<failed, metrics>>
    /\ UNCHANGED ConcFrame

\* cache.incr of a counter: adds one, or raises ValueError on a missing key.
Incr(c, kind, present, absent) ==
    LET name == callers[c].target
    IN IF Live(metrics[name][kind], now)
       THEN /\ metrics' = [metrics EXCEPT ![name][kind].val = @ + 1]
            /\ callers' = [callers EXCEPT ![c].pc = present]
            /\ events' = [events EXCEPT
                             !.increments[name][kind] = @ + 1,
                             !.highest[name][kind] =
                                 IF metrics[name][kind].val + 1 > @
                                 THEN metrics[name][kind].val + 1 ELSE @]
       ELSE /\ callers' = [callers EXCEPT ![c].pc = absent]
            /\ UNCHANGED <<metrics, events>>

\* The handler of ValueError: cache.set(key, 1, timeout=3600).
SetOne(c, kind, next) ==
    LET name == callers[c].target
    IN /\ metrics' = [metrics EXCEPT ![name][kind] =
                                        CacheEntry(1, now, METRICS_TTL)]
       /\ callers' = [callers EXCEPT ![c].pc = next]
       /\ events' = [events EXCEPT
                        !.increments[name][kind] = @ + 1,
                        !.highest[name][kind] = IF 1 > @ THEN 1 ELSE @]

IncrSuccess(c) ==
    /\ callers[c].pc = "incr_success"
    /\ Incr(c, "success", "clear", "set_success")
    /\ UNCHANGED <<routing, failed>>
    /\ UNCHANGED ConcFrame

SetSuccess(c) ==
    /\ callers[c].pc = "set_success"
    /\ SetOne(c, "success", "clear")
    /\ UNCHANGED <<routing, failed>>
    /\ UNCHANGED ConcFrame

\* _clear_failed_timestamp after a successful fetch; the call returns.
ClearMark(c) ==
    /\ callers[c].pc = "clear"
    /\ failed' = clear_failed_timestamp(failed, callers[c].target)
    /\ callers' = [callers EXCEPT ![c].pc = "done", ![c].ok = TRUE]
    /\ UNCHANGED <<routing, metrics, events>>
    /\ UNCHANGED ConcFrame

IncrFailure(c) ==
    /\ callers[c].pc = "incr_failure"
    /\ Incr(c, "failure", "mark", "set_failure")
    /\ UNCHANGED <<routing, failed>>
    /\ UNCHANGED ConcFrame

SetFailure(c) ==
    /\ callers[c].pc = "set_failure"
    /\ SetOne(c, "failure", "mark")
    /\ UNCHANGED <<routing, failed>>
    /\ UNCHANGED ConcFrame

\* _mark_provider_failed after a failed fetch; the next fallback follows,
\* or the call raises when none is left.
MarkFailed(c) ==
    /\ callers[c].pc = "mark"
    /\ LET s == callers[c]
       IN /\ failed' = mark_provider_failed(failed, s.target, now)
          /\ callers' = [callers EXCEPT ![c] =
                 IF s.fb + 1 > Len(Fallbacks(s))
                 THEN [s EXCEPT !.pc = "done", !.ok = FALSE]
                 ELSE [s EXCEPT !.pc = "fetch", !.fb = s.fb + 1,
                                !.target = Fallbacks(s)[s.fb + 1]]]
    /\ UNCHANGED <<routing, metrics, events>>
    /\ UNCHANGED ConcFrame

NextConc ==
    \E c \in Callers :
        \/ Begin(c)
        \/ CheckRetry(c)
        \/ CheckFailed(c)
        \/ \E res \in ProbeResults : Probe(c, res)
        \/ Recovered(c)
        \/ Unrecovered(c)
        \/ \E ok \in BOOLEAN : Fetch(c, ok)
        \/ SetRouting(c)
        \/ IncrSuccess(c)
        \/ SetSuccess(c)
        \/ ClearMark(c)
        \/ IncrFailure(c)
        \/ SetFailure(c)
        \/ MarkFailed(c)

SpecConc == InitConc /\ [][NextConc]_vars

\* ------------------------------------------------------------------ claims
\* The state right after a route_request call, and right after a direct
\* call of selection (the clock has not moved since).
JustRouted == last.op = "route" /\ now = last.at

JustSelected == last.op = "select" /\ now = last.at

\* How often a name occurs in a sequence of call records.
Occurrences(recs, name) == Cardinality({i \in 1..Len(recs) : recs[i].name = name})

FetchedAndFailed(name) ==
    \E i \in 1..Len(last.fetches) :
        last.fetches[i].name = name /\ ~last.fetches[i].ok

AllFetchedAndFailed == \A n \in Registered(providers) : FetchedAndFailed(n)

\* A counter's value as cache.get reads it; 0 stands for a missing key.
MetricValue(m, name, kind, t) ==
    IF Live(m[name][kind], t) THEN m[name][kind].val ELSE 0

\* The first name of the registry other than the given one.
FirstOther(reg, name) ==
    LET others == SelectSeq(provider_map_keys(reg), LAMBDA n : n # name)
    IN IF others = <<>> THEN None ELSE others[1]

\* The mark a provider carried when the last call began, and its age then.
MarkedBefore(name) == Live(last.pre.failed[name], last.at)

AgeBefore(name) == last.at - last.pre.failed[name].val

ProbedWith(name, res) ==
    \E i \in 1..Len(last.probes) :
        last.probes[i].name = name /\ last.probes[i].res = res

TotalFailureAllProvidersFailed ==
    (JustRouted /\ AllFetchedAndFailed) =>
        /\ last.result = "raise"
        /\ last.error = "All providers failed"
        /\ \A n \in Registered(providers) : is_provider_failed(failed, n, now)

\* C3 amended: when the fetch of every registered provider fails in one call,
\* the call raises -- "All providers failed" when the registry has two or
\* more providers, "No fallback provider available" when it has one -- and
\* every registered provider carries a failure mark stamped now.
TotalFailureHolds ==
    (JustRouted /\ AllFetchedAndFailed) =>
        /\ last.result = "raise"
        /\ last.error = IF Len(providers) >= 2
                        THEN "All providers failed"
                        ELSE "No fallback provider available"
        /\ \A n \in Registered(providers) :
              /\ is_provider_failed(failed, n, now)
              /\ get_last_failed_timestamp(failed, n, now) = last.at

\* C3 witness: all three providers of a registry were fetched and failed.
TotalFailureWitness ==
    /\ JustRouted
    /\ AllFetchedAndFailed
    /\ Len(providers) >= 3
    /\ last.error = "All providers failed"

\* C4 as stated: route_request raises only when the fetch of every
\* registered provider was invoked in this call and failed.
FailsOnlyWhenAllTried ==
    (JustRouted /\ last.result = "raise") => AllFetchedAndFailed

\* C5: in a selection call every registered provider without a failure mark
\* is placed in the eligible list, and is not probed.
HealthyByDefaultHolds ==
    JustSelected =>
        \A n \in Registered(providers) :
            ~MarkedBefore(n) =>
                /\ InSeq(last.available, n)
                /\ Occurrences(last.probes, n) = 0

\* C5 witness: a selection that probed one provider and found another
\* unmarked.
HealthyByDefaultWitness ==
    /\ JustSelected
    /\ last.probes # <<>>
    /\ \E n \in Registered(providers) : ~MarkedBefore(n)

\* C6: a provider whose failure mark is younger than RETRY_INTERVAL_SECONDS
\* is not eligible and not probed in a selection call, and selection returns
\* another, eligible provider when there is one.
CooldownHolds ==
    JustSelected =>
        \A n \in Registered(providers) :
            (MarkedBefore(n) /\ AgeBefore(n) < RETRY_INTERVAL_SECONDS) =>
                /\ ~InSeq(last.available, n)
                /\ Occurrences(last.probes, n) = 0
                /\ last.available # <<>> =>
                      /\ InSeq(last.available, last.primary)
                      /\ last.primary # n

\* C6 witness: "scraping" is one second short of the retry interval and
\* selection returned another provider.
CooldownWitness ==
    /\ JustSelected
    /\ InMap(providers, "scraping")
    /\ MarkedBefore("scraping")
    /\ AgeBefore("scraping") = RETRY_INTERVAL_SECONDS - 1
    /\ last.primary # "scraping"
    /\ InSeq(last.available, last.primary)

\* The provider the cost rule prefers among the eligible ones: the first
\* zero-cost one in registry order, otherwise the first one.
Preferred(reg, available) ==
    LET free == SelectSeq(provider_map_keys(reg),
                    LAMBDA n : InSeq(available, n)
                               /\ \E i \in 1..Len(reg) :
                                     reg[i].name = n /\ reg[i].cost = 0)
    IN IF free # <<>> THEN free[1] ELSE available[1]

\* The part of C7 that does not rest on the cost rule: a provider whose mark
\* is at least RETRY_INTERVAL_SECONDS old is probed exactly once; if the probe
\* returns true its mark is deleted and it is eligible in this call.
LazyRecoveryProbeHolds ==
    JustSelected =>
        \A n \in Registered(providers) :
            (MarkedBefore(n) /\ AgeBefore(n) >= RETRY_INTERVAL_SECONDS) =>
                /\ Occurrences(last.probes, n) = 1
                /\ ProbedWith(n, "true") =>
                      /\ ~is_provider_failed(failed, n, now)
                      /\ InSeq(last.available, n)

\* C7 as stated: a provider whose mark is at least RETRY_INTERVAL_SECONDS old
\* is probed exactly once; if the probe returns true its mark is deleted, it
\* is eligible in this call, and it is returned when it is the preferred
\* provider.
LazyRecoveryReturnsPreferred ==
    JustSelected =>
        \A n \in Registered(providers) :
            (MarkedBefore(n) /\ AgeBefore(n) >= RETRY_INTERVAL_SECONDS) =>
                /\ Occurrences(last.probes, n) = 1
                /\ ProbedWith(n, "true") =>
                      /\ ~is_provider_failed(failed, n, now)
                      /\ InSeq(last.available, n)
                      /\ Preferred(providers, last.available) = n
                            => last.primary = n

\* C8: when a recovery probe returns false or raises, no exception leaves the
\* selection call, the provider's failure mark is stamped with the current
\* time (so for the next RETRY_INTERVAL_SECONDS it is marked and not due for a
\* probe), and the provider is not eligible in this call.
FailedProbeHolds ==
    JustSelected =>
        \A i \in 1..Len(last.probes) :
            last.probes[i].res # "true" =>
                LET n == last.probes[i].name
                IN /\ last.result = "ok"
                   /\ last.error = ""
                   /\ get_last_failed_timestamp(failed, n, now) = last.at
                   /\ \A d \in 0..(RETRY_INTERVAL_SECONDS - 1) :
                         /\ is_provider_failed(failed, n, now + d)
                         /\ ~should_retry_provider(failed, n, now + d)
                   /\ should_retry_provider(failed, n, now + RETRY_INTERVAL_SECONDS)
                   /\ ~InSeq(last.available, n)

\* C8 witness: one probe raised, another returned false, both on old marks.
FailedProbeWitness ==
    /\ JustSelected
    /\ \E n \in Registered(providers) :
          ProbedWith(n, "raise") /\ last.pre.failed[n].val < last.at
    /\ \E n \in Registered(providers) : ProbedWith(n, "false")

\* C9 as stated: with a non-empty eligible list selection returns the first
\* zero-cost eligible provider in registry order, otherwise the first
\* eligible provider.
CostPreference ==
    (JustSelected /\ last.available # <<>>) =>
        last.primary = Preferred(providers, last.available)

\* Eligibility in the last selection, from the marks before it and the
\* probe results: unmarked, or due for a retry and probed true.
EligibleIn(name) ==
    \/ ~MarkedBefore(name)
    \/ /\ AgeBefore(name) >= RETRY_INTERVAL_SECONDS
       /\ ProbedWith(name, "true")

\* C10: with the default registry selection returns "scraping" whenever
\* scraping is eligible, "external" when only external is eligible, and
\* "scraping" when neither is.
DefaultRegistrySelectionHolds ==
    (JustSelected /\ providers = DefaultRegistry) =>
        /\ EligibleIn("scraping") => last.primary = "scraping"
        /\ (~EligibleIn("scraping") /\ EligibleIn("external"))
              => last.primary = "external"
        /\ (~EligibleIn("scraping") /\ ~EligibleIn("external"))
              => last.primary = "scraping"

\* C10 witness: scraping failed its probe, external passed its own, and
\* external was returned.
DefaultRegistrySelectionWitness ==
    /\ JustSelected
    /\ providers = DefaultRegistry
    /\ ProbedWith("scraping", "false")
    /\ ProbedWith("external", "true")
    /\ last.primary = "external"

\* The assignment the last call found in the cache, if it names a provider of
\* the registry.
AssignedBefore ==
    /\ Live(last.pre.routing, last.at)
    /\ InMap(providers, last.pre.routing.val)

AllInCooldownBefore ==
    \A n \in Registered(providers) :
        MarkedBefore(n) /\ AgeBefore(n) < RETRY_INTERVAL_SECONDS

\* C19: a call that runs selection while every registered provider is in
\* cooldown probes nothing, takes the default provider name as primary and
\* fetches that provider first.
EmptyEligibleFetchesDefault ==
    (JustRouted /\ last.selecting /\ AllInCooldownBefore) =>
        /\ last.probes = <<>>
        /\ last.available = <<>>
        /\ last.primary = "scraping"
        /\ Len(last.fetches) >= 1
        /\ last.fetches[1].name = "scraping"

\* C12 as stated: a call of caller u takes as primary the provider stored
\* under "routing:<u>" when that names a registered provider, and after a
\* successful call "routing:<u>" holds the name of the provider that served.
PerCallerRouting ==
    JustRouted =>
        LET k == user_routing[last.user_id]
        IN /\ (Live(k, now) /\ InMap(providers, k.val)) => last.primary = k.val
           /\ last.result = "ok" => get_cached_routing(k, now) = last.served

\* The state right after a run of check_all_providers.
JustSwept == last.op = "sweep" /\ now = last.at

\* The providers whose stored record was "unhealthy" before the last sweep
\* and whose probe returned true in it.
Recovering ==
    {n \in Registered(providers) :
        /\ last.pre_health[n].has
        /\ last.pre_health[n].status = "unhealthy"
        /\ ProbedWith(n, "true")}

\* C14 as stated: a sweep invokes the deletion of "routing:*" once for each
\* provider recorded unhealthy before it whose probe returns true.
SweepRecoveryInvalidates ==
    JustSwept => last.cleared = Cardinality(Recovering)

\* C15: a sweep in which no provider goes from a recorded "unhealthy" to a
\* true probe never invokes the pattern deletion and leaves the routing
\* assignment as it was.
SweepWithoutRecoveryHolds ==
    (JustSwept /\ Recovering = {}) =>
        /\ last.cleared = 0
        /\ routing = last.pre.routing

\* C15 witness: a sweep over a live assignment with one healthy provider and
\* one provider recorded unhealthy before that stays unhealthy.
SweepWithoutRecoveryWitness ==
    /\ JustSwept
    /\ Recovering = {}
    /\ Live(routing, now)
    /\ \E n \in Registered(providers) : ProbedWith(n, "true")
    /\ \E n \in Registered(providers) :
          /\ last.pre_health[n].has
          /\ last.pre_health[n].status = "unhealthy"
          /\ ~ProbedWith(n, "true")

\* C16: a sweep probes each registered provider once, in registry order;
\* stores for each a record checked now whose status is "healthy" exactly
\* when its probe returned true, with the exception text as last_error when
\* the probe raised; leaves the records of other names alone; and returns
\* one boolean per registered provider, true exactly when its probe was.
SweepRecordsHolds ==
    JustSwept =>
        /\ Len(last.probes) = Len(providers)
        /\ \A i \in 1..Len(providers) : last.probes[i].name = providers[i].name
        /\ DOMAIN last.results = Registered(providers)
        /\ \A n \in Registered(providers) :
              /\ last.results[n] = ProbedWith(n, "true")
              /\ health_records[n].has
              /\ health_records[n].last_check = now
              /\ health_records[n].status \in {"healthy", "unhealthy"}
              /\ health_records[n].status = "healthy" <=> ProbedWith(n, "true")
              /\ ProbedWith(n, "true") => health_records[n].last_error = <<>>
              /\ ProbedWith(n, "raise") =>
                    health_records[n].last_error =
                        <<"Health check exception", ProbeExceptionText>>
        /\ \A n \in ProviderNames \ Registered(providers) :
              health_records[n] = last.pre_health[n]

\* C16 witness: a probe raised and a later provider of the same sweep was
\* still probed and recorded healthy.
SweepRecordsWitness ==
    /\ JustSwept
    /\ \E i, j \in 1..Len(last.probes) :
          /\ i < j
          /\ last.probes[i].res = "raise"
          /\ last.probes[j].res = "true"
          /\ health_records[last.probes[i].name].status = "unhealthy"
          /\ health_records[last.probes[j].name].status = "healthy"
          /\ last.results[last.probes[i].name] = FALSE

\* The assignment the last call found names no provider of the registry.
StaleAssignment ==
    /\ Live(last.pre.routing, last.at)
    /\ ~InMap(providers, last.pre.routing.val)

\* C20: a call that finds an assignment naming an unregistered provider
\* raises "Provider not found", runs no selection, probe or fetch, and
\* leaves assignment, failure marks and metric counters as they were.
UnknownProviderHolds ==
    (JustRouted /\ StaleAssignment) =>
        /\ last.result = "raise"
        /\ last.error = "Provider not found"
        /\ ~last.selecting
        /\ last.probes = <<>>
        /\ last.fetches = <<>>
        /\ [routing |-> routing, failed |-> failed, metrics |-> metrics] = last.pre

\* C20 witness: the second call in a row stopped by the same stale
\* assignment.
UnknownProviderWitness ==
    /\ JustRouted
    /\ StaleAssignment
    /\ calls = 2
    /\ last.error = "Provider not found"
    /\ Live(routing, now)
    /\ routing = last.pre.routing

\* The state right after a direct call of an increment method.
JustIncremented == last.op = "increment" /\ now = last.at

\* The sum of all counters readable at time t.
RECURSIVE SumOver(_, _, _)
SumOver(m, keys, t) ==
    IF keys = {} THEN 0
    ELSE LET key == CHOOSE x \in keys : TRUE
         IN MetricValue(m, key[1], key[2], t) + SumOver(m, keys \ {key}, t)

\* C17: an increment sets an absent counter to 1 and adds one to a present
\* one, and changes no other counter, failure mark or assignment; so while
\* no counter has expired the counters add up to the number of increments.
CountersExactHolds ==
    /\ JustIncremented =>
          LET n == last.metric.name
              k == last.metric.kind
          IN /\ MetricValue(metrics, n, k, now)
                    = MetricValue(last.pre.metrics, n, k, last.at) + 1
             /\ ~Live(last.pre.metrics[n][k], last.at) => metrics[n][k].val = 1
             /\ \A n2 \in ProviderNames, k2 \in Kinds :
                    <<n2, k2>> # <<n, k>> =>
                        metrics[n2][k2] = last.pre.metrics[n2][k2]
             /\ routing = last.pre.routing
             /\ failed = last.pre.failed
    /\ (last.op \in {"none", "increment"} /\ now < METRICS_TTL) =>
          SumOver(metrics, ProviderNames \X Kinds, now) = calls

\* C17 witness: two success increments and one failure increment of the
\* same provider, read back as 2 and 1.
CountersExactWitness ==
    /\ JustIncremented
    /\ calls = 3
    /\ \E n \in Registered(providers) :
          /\ MetricValue(metrics, n, "success", now) = 2
          /\ MetricValue(metrics, n, "failure", now) = 1

\* C18: without any sweep, a provider that carries a failure mark and whose
\* probe and fetch succeed from now on eventually carries no mark (selection
\* then takes it as available without a probe), while calls keep coming and
\* time passes.
NoPermanentBlacklistHolds ==
    \A P \in ProviderNames :
        (P \in stable /\ is_provider_failed(failed, P, now))
            ~> ~is_provider_failed(failed, P, now)

\* C18 witness: a provider that succeeds from now on still carries an aged
\* mark while the assignment keeps the calls on another provider.
NoPermanentBlacklistWitness ==
    \E P \in stable :
        /\ JustRouted
        /\ is_provider_failed(failed, P, now)
        /\ failed[P].val < now
        /\ last.cached # None
        /\ last.cached # P
        /\ last.served = last.cached
        /\ last.result = "ok"

\* C21: with a single provider whose fetch fails, the call raises, the
\* provider's failure counter goes up by one, the provider carries a mark
\* stamped now, and the routing assignment is not written.
SingleProviderFailureHolds ==
    (JustRouted /\ Len(providers) = 1 /\ last.fetches # <<>>
        /\ ~last.fetches[1].ok) =>
        LET P == providers[1].name
        IN /\ last.fetches = <<[name |-> P, ok |-> FALSE]>>
           /\ last.result = "raise"
           /\ last.error = "No fallback provider available"
           /\ MetricValue(metrics, P, "failure", now)
                 = MetricValue(last.pre.metrics, P, "failure", last.at) + 1
           /\ metrics[P]["success"] = last.pre.metrics[P]["success"]
           /\ is_provider_failed(failed, P, now)
           /\ get_last_failed_timestamp(failed, P, now) = now
           /\ routing = last.pre.routing

\* C21 witness: the only provider of the registry was selected, failed, and
\* no assignment exists.
SingleProviderFailureWitness ==
    /\ JustRouted
    /\ Len(providers) = 1
    /\ last.selecting
    /\ last.fetches = <<[name |-> providers[1].name, ok |-> FALSE]>>
    /\ last.error = "No fallback provider available"
    /\ get_cached_routing(routing, now) = None
    /\ is_provider_failed(failed, providers[1].name, now)

\* The names of the registry other than the given one, in registry order.
OthersInOrder(name) ==
    SelectSeq([i \in 1..Len(providers) |-> providers[i].name],
              LAMBDA n : n # name)

\* C22: after the primary's fetch failed the other providers are fetched in
\* registry order, marked or not, each at most once; every one that fails
\* is counted and marked now; the first that succeeds ends the call and is
\* the assignment; the call raises only when all of them were fetched.
FallbackOrderHolds ==
    (JustRouted /\ last.fetches # <<>> /\ ~last.fetches[1].ok) =>
        LET P == last.fetches[1].name
            fb == OthersInOrder(P)
            k == Len(last.fetches) - 1
        IN /\ P = last.primary
           /\ k <= Len(fb)
           /\ \A i \in 1..k : last.fetches[i + 1].name = fb[i]
           /\ \A i \in 1..k : ~last.fetches[i].ok
           /\ \A i \in 1..Len(last.fetches) :
                 ~last.fetches[i].ok =>
                    LET n == last.fetches[i].name
                    IN /\ get_last_failed_timestamp(failed, n, now) = now
                       /\ MetricValue(metrics, n, "failure", now)
                             = MetricValue(last.pre.metrics, n, "failure",
                                           last.at) + 1
           /\ last.fetches[k + 1].ok =>
                 /\ last.result = "ok"
                 /\ last.served = last.fetches[k + 1].name
                 /\ get_cached_routing(routing, now) = last.fetches[k + 1].name
           /\ ~last.fetches[k + 1].ok =>
                 /\ last.result = "raise"
                 /\ k = Len(fb)

\* C22 witness: of three providers the primary failed, the first fallback
\* in registry order carried a mark and served the call, and the third
\* provider was not fetched.
FallbackOrderWitness ==
    /\ JustRouted
    /\ Len(providers) = 3
    /\ Len(last.fetches) = 2
    /\ ~last.fetches[1].ok
    /\ last.fetches[2].ok
    /\ last.fetches[2].name = OthersInOrder(last.fetches[1].name)[1]
    /\ MarkedBefore(last.fetches[2].name)
    /\ get_cached_routing(routing, now) = last.fetches[2].name

\* The providers whose mark had passed the retry interval before the call.
DueBefore ==
    {n \in Registered(providers) :
        MarkedBefore(n) /\ AgeBefore(n) >= RETRY_INTERVAL_SECONDS}

\* C23: one selection call probes every provider whose mark has passed the
\* retry interval, once and in registry order, and no other provider,
\* whether or not the free provider is already available.
SelectionEvaluatesAllHolds ==
    JustSelected =>
        /\ Len(last.probes) = Cardinality(DueBefore)
        /\ \A n \in Registered(providers) :
              Occurrences(last.probes, n) = IF n \in DueBefore THEN 1 ELSE 0
        /\ \A i, j \in 1..Len(last.probes) :
              i < j =>
                 \E a, b \in 1..Len(providers) :
                    /\ a < b
                    /\ providers[a].name = last.probes[i].name
                    /\ providers[b].name = last.probes[j].name

\* C23 witness: the free provider was available without a probe and a
\* provider after it in the registry was probed all the same.
SelectionEvaluatesAllWitness ==
    /\ JustSelected
    /\ ~MarkedBefore("scraping")
    /\ InSeq(last.available, "scraping")
    /\ last.primary = "scraping"
    /\ \E a, b \in 1..Len(providers) :
          /\ a < b
          /\ providers[a].name = "scraping"
          /\ providers[b].name \in DueBefore
          /\ Occurrences(last.probes, providers[b].name) = 1

\* The state right after a direct call of the pattern deletion.
JustCleared == last.op = "clear" /\ now = last.at

\* C28: when delete_pattern is missing or raises, the invalidation step
\* returns normally and deletes no key, and a sweep run over such a cache
\* still stores a record for every provider and returns a result for each.
UnsupportedDeleteHolds ==
    /\ (JustCleared /\ last.delete_pattern # "deleted") =>
          /\ last.result = "ok"
          /\ last.cleared = 1
          /\ routing = last.pre.routing
          /\ user_routing = last.pre_user_routing
          /\ failed = last.pre.failed
          /\ metrics = last.pre.metrics
          /\ health_records = last.pre_health
    /\ (JustSwept /\ last.delete_pattern # "deleted") =>
          /\ last.result = "ok"
          /\ routing = last.pre.routing
          /\ user_routing = last.pre_user_routing
          /\ DOMAIN last.results = Registered(providers)
          /\ \A n \in Registered(providers) :
                /\ health_records[n].has
                /\ health_records[n].last_check = now

\* C28 witness: the pattern deletion was called on a cache without
\* delete_pattern and both routing keys are still there.
UnsupportedDeleteWitness ==
    /\ JustCleared
    /\ last.delete_pattern = "AttributeError"
    /\ Live(routing, now)
    /\ \E u \in UserIds : Live(user_routing[u], now)

\* C25: two stores that differ only in metric counters and see the same
\* requests and provider outcomes have the same assignment and the same
\* failure marks at all times, and every call runs the same probes and the
\* same fetches in the same order on both and ends the same way.
MetricsBlindHolds ==
    /\ twin.routing = routing
    /\ twin.failed = failed
    /\ JustRouted =>
          /\ twin.probes = last.probes
          /\ twin.fetches = last.fetches
          /\ twin.result = last.result

\* C25 witness: a second call, with a failed fetch and a fallback, on two
\* stores whose counters of the failed provider differ.
MetricsBlindWitness ==
    /\ JustRouted
    /\ calls = 2
    /\ Len(last.fetches) = 2
    /\ ~last.fetches[1].ok
    /\ twin.metrics[last.fetches[1].name]["failure"]
          # metrics[last.fetches[1].name]["failure"]
    /\ twin.routing = routing
    /\ Live(routing, now)

\* C29: once the paid provider is the assignment while the free provider is
\* registered and both succeed from now on, some call is eventually served
\* by the free provider, unless the calls stop and the assignment expires.
ReturnsToPreferred ==
    (/\ Live(routing, now)
     /\ routing.val = "external"
     /\ InMap(providers, "scraping")
     /\ {"scraping", "external"} \subseteq stable)
        ~> (\/ JustRouted /\ last.served = "scraping"
            \/ ~Live(routing, now))

\* Every caller has left route_request.
AllDone == \A c \in Callers : callers[c].pc = "done"

\* C24 as stated: under concurrent callers no counter ever reads lower than
\* a value an increment has produced, and once all calls have finished each
\* counter equals the number of increments performed on it.
CountersMonotoneExact ==
    \A n \in ProviderNames, k \in Kinds :
        /\ MetricValue(metrics, n, k, now) >= events.highest[n][k]
        /\ AllDone => MetricValue(metrics, n, k, now) = events.increments[n][k]

\* C26: from no assignment, the assignment is at all times the name last
\* written by a caller, written only after that provider's fetch succeeded;
\* once all calls have finished it is absent exactly when every call failed.
LastWriterWinsHolds ==
    /\ get_cached_routing(routing, now) = events.written
    /\ events.written # None => events.written \in events.served
    /\ AllDone =>
          IF \A c \in Callers : ~callers[c].ok
          THEN routing = AbsentName
          ELSE /\ Live(routing, now)
               /\ \E c \in Callers :
                     callers[c].ok /\ callers[c].target = routing.val

\* C26 witness: both calls succeeded, served by different providers, and
\* the assignment names the one written last.
LastWriterWinsWitness ==
    /\ AllDone
    /\ \A c \in Callers : callers[c].ok
    /\ \E c, d \in Callers : callers[c].target # callers[d].target
    /\ get_cached_routing(routing, now) = events.written

\* C27: a probe is made only by a caller that read the provider's mark as
\* past the retry interval, once per call, so a provider is probed at most
\* once for each concurrent caller; nothing keeps a second caller from it.
ProbesPerCallerHolds ==
    /\ ~events.early
    /\ \A n \in ProviderNames :
          /\ events.probed[n] <= Cardinality(Callers)
          /\ events.probed[n] > 0 => n \in Registered(providers)

\* C27 witness: one provider has been probed twice while the clock stood
\* still, and carries a fresh mark from the probe that failed.
ProbesPerCallerWitness ==
    \E n \in Registered(providers) :
        /\ events.probed[n] = 2
        /\ AllDone

\* C30 as stated: once all calls have finished, a provider whose last fetch
\* failed, with no successful probe or fetch of it since, carries a mark.
FailureNeverLost ==
    AllDone =>
        \A n \in Registered(providers) :
            events.failing[n] => is_provider_failed(failed, n, now)

\* C31: every call of route_request ends by returning or raising, after at
\* most one fetch and at most one probe of each registered provider and of
\* no other; a call that found an assignment made no probe.
BoundedCallHolds ==
    JustRouted =>
        /\ last.result \in {"ok", "raise"}
        /\ \A i \in 1..Len(last.fetches) :
              last.fetches[i].name \in Registered(providers)
        /\ \A i \in 1..Len(last.probes) :
              last.probes[i].name \in Registered(providers)
        /\ \A n \in ProviderNames :
              /\ Occurrences(last.fetches, n) <= 1
              /\ Occurrences(last.probes, n) <= 1
        /\ last.cached # None => last.probes = <<>>

\* C31 witness: a call that probed a provider and then fetched from every
\* provider of a registry of two or more.
BoundedCallWitness ==
    /\ JustRouted
    /\ last.probes # <<>>
    /\ Len(last.fetches) >= 2
    /\ \A n \in Registered(providers) : Occurrences(last.fetches, n) = 1

\* C32: a call of route_request that raises leaves the assignment, value and
\* expiry, exactly as it found it, whether or not the provider it names now
\* carries a failure mark.
FailedCallKeepsAssignmentHolds ==
    (JustRouted /\ last.result = "raise") =>
        /\ routing = last.pre.routing
        /\ get_cached_routing(routing, now) = last.cached

\* C32 witness: a call found an assignment, every fetch of it raised, and
\* the assignment still names the provider first fetched, now marked failed.
FailedCallKeepsAssignmentWitness ==
    /\ JustRouted
    /\ last.result = "raise"
    /\ last.error = "All providers failed"
    /\ last.cached # None
    /\ routing = last.pre.routing
    /\ routing.val = last.fetches[1].name
    /\ ~is_provider_failed(last.pre.failed, routing.val, now)
    /\ is_provider_failed(failed, routing.val, now)

\* C33: from an empty store, the assignment is at all times absent or the
\* name of a provider of the router's registry; the default name selection
\* returns when nothing is available is not stored unless it is registered.
AssignmentRegisteredHolds ==
    /\ routing # AbsentName => routing.val \in Registered(providers)
    /\ (JustRouted /\ last.primary \notin Registered(providers)) =>
          /\ last.result = "raise"
          /\ routing = last.pre.routing

\* C33 witness: with no provider named "scraping" registered, a call found
\* every provider in cooldown, selected the default name and raised, and
\* the store holds no assignment.
AssignmentRegisteredWitness ==
    /\ JustRouted
    /\ "scraping" \notin Registered(providers)
    /\ last.selecting
    /\ last.available = <<>>
    /\ last.primary = "scraping"
    /\ last.error = "Provider not found"
    /\ routing = AbsentName

\* C34: a sweep leaves every failure mark and every metric counter as it
\* found them, a call of route_request leaves every health record as it found
\* it, and the providers a selection finds available are those eligible by
\* the failure marks and the probes alone, whatever the health records say.
SweepDisjointHolds ==
    /\ JustSwept => (failed = last.pre.failed /\ metrics = last.pre.metrics)
    /\ JustRouted => health_records = last.pre_health
    /\ (JustRouted /\ last.selecting) =>
          \A n \in Registered(providers) :
              InSeq(last.available, n) <=> EligibleIn(n)

\* C34 witness: a sweep recorded a provider as unhealthy, and the selection
\* of the next call, finding no mark on it, took it as available.
SweepDisjointWitness ==
    /\ JustRouted
    /\ last.selecting
    /\ \E n \in Registered(providers) :
          /\ last.pre_health[n].has
          /\ last.pre_health[n].status = "unhealthy"
          /\ ~MarkedBefore(n)
          /\ InSeq(last.available, n)

====
